---- MODULE Spec2Model ----
(***************************************************************************)
(* A model of rocket-1.py: the sprite clipping/drawing layer, the body     *)
(* integration and constraint state machine, the crash decomposition and   *)
(* the animation's frame loop.                                             *)
(*                                                                         *)
(* Numbers.  The program computes in Python floats.  The model computes in *)
(* exact rationals <<n, d>> (d > 0, lowest terms), so every equality below *)
(* is an equality of the exact values; float rounding is not modelled.     *)
(***************************************************************************)
EXTENDS Integers, Sequences, FiniteSets, TLC

VARIABLES
    bodies,     \* the active set: animation's `bodies` list (or the body under test)
    ret,        \* what the last constrain() call returned
    op,         \* the last call made on the body under test
    pre,        \* the body under test as it was when that call was made
    b0,         \* the body under test as constructed
    t,          \* sum of the dt passed to advance() on the body under test
    nops,       \* number of calls made on the body under test
    pc,         \* "animation": in animation()'s loop; "returned": it has returned
    Kpid,       \* animation's Kpid list
    timewarp,   \* animation's timewarp
    last,       \* animation's last: the timer() reading of the previous frame
    now,        \* animation's now: the simulation time
    dt,         \* animation's dt
    selected,   \* the digit of the last iteration's key, None if it was no digit key
    calls,      \* the last step(): per body, the body, advance()'s effect, constrain()'s return
    updated,    \* the last step(): the calls of update( win ), in order
    nextId,     \* number of bodies created so far
    born,       \* per id, the simulation time of the frame that created the body
    grounded,   \* per id, the sum of the dt of the advance() calls that found the body done
    frames,     \* number of iterations of the loop so far
    spawned,    \* number of rockets spawned so far
    adjusted,   \* number of P/p/I/i/D/d key presses so far
    win,        \* the curses window: what getmaxyx() returns
    surface,    \* the operations the last call on a sprite made on win, in order
    drawn,      \* the last call made on a sprite: its arguments and its outcome
    term,       \* main(): where it is, the terminal's modes, failure, what was logged
    exception   \* the exception the last call raised, None if it raised none

bodyvars == <<ret, op, pre, b0, t, nops>>

animvars == <<pc, Kpid, timewarp, last, now, dt, selected, calls, updated, nextId,
              born, grounded, frames, spawned, adjusted>>

drawvars == <<win, surface, drawn>>

mainvars == <<term, exception>>

vars == <<bodies, bodyvars, animvars, drawvars, mainvars>>

----------------------------------------------------------------------------
(* Float arithmetic of the program, as exact rationals. *)

Abs(n) == IF n < 0 THEN -n ELSE n

RECURSIVE Gcd(_, _)
Gcd(a, b) == IF b = 0 THEN a ELSE Gcd(b, a % b)

Lcm(a, b) == (a \div Gcd(a, b)) * b

Rat(n, d) ==
    LET g == Gcd(Abs(n), Abs(d))
        s == IF d < 0 THEN -1 ELSE 1
    IN  <<s * (n \div g), s * (d \div g)>>

Num(n) == <<n, 1>>

Zero == Num(0)

RNeg(a) == <<-a[1], a[2]>>

RAdd(a, b) ==
    LET l == Lcm(a[2], b[2])
    IN  Rat(a[1] * (l \div a[2]) + b[1] * (l \div b[2]), l)

RSub(a, b) == RAdd(a, RNeg(b))

RMul(a, b) ==
    LET g1 == Gcd(Abs(a[1]), b[2])
        g2 == Gcd(Abs(b[1]), a[2])
    IN  <<(a[1] \div g1) * (b[1] \div g2), (a[2] \div g2) * (b[2] \div g1)>>

RInv(a) == IF a[1] < 0 THEN <<-a[2], -a[1]>> ELSE <<a[2], a[1]>>

RDiv(a, b) == RMul(a, RInv(b))

RLt(a, b) ==
    LET l == Lcm(a[2], b[2])
    IN  a[1] * (l \div a[2]) < b[1] * (l \div b[2])

RLe(a, b) == a = b \/ RLt(a, b)

RAbs(a) == <<Abs(a[1]), a[2]>>

\* Python's int( x ): truncation toward zero.
Trunc(a) == IF a[1] >= 0 THEN a[1] \div a[2] ELSE -((-a[1]) \div a[2])

\* math.floor
Floor(a) == a[1] \div a[2]

\* Python's float a % b for b > 0: a - b * floor( a / b ).
RMod(a, b) == RSub(a, RMul(b, Num(Floor(RDiv(a, b)))))

\* x ** .5 of a rational that is a perfect square.
RECURSIVE ISqrt(_, _, _)
ISqrt(n, lo, hi) ==
    IF lo >= hi THEN lo
    ELSE LET mid == (lo + hi + 1) \div 2
         IN  IF mid <= n \div mid THEN ISqrt(n, mid, hi) ELSE ISqrt(n, lo, mid - 1)

IsSquare(a) ==
    /\ a[1] >= 0
    /\ ISqrt(a[1], 0, a[1]) * ISqrt(a[1], 0, a[1]) = a[1]
    /\ ISqrt(a[2], 0, a[2]) * ISqrt(a[2], 0, a[2]) = a[2]

RSqrt(a) == <<ISqrt(a[1], 0, a[1]), ISqrt(a[2], 0, a[2])>>

----------------------------------------------------------------------------
(* Gravity and the integrators. *)

G == Rat(-981, 100)

X == 1

Y == 2

None == <<>>

\* verlet, were it to take the acceleration at the old position only
verlet_one_endpoint(p, v, d, a) ==
    LET p_new == RAdd(RAdd(p, RMul(v, d)), RDiv(RMul(a, RMul(d, d)), Num(2)))
        v_new == RAdd(v, RMul(RDiv(a, Num(2)), d))
    IN  <<p_new, v_new>>

\* verlet(p, v, dt, a) with a(r) constant, as body.advance's lambda r: a
verlet(p, v, d, a) ==
    LET p_new == RAdd(RAdd(p, RMul(v, d)), RDiv(RMul(a, RMul(d, d)), Num(2)))
        v_new == RAdd(v, RMul(RDiv(RAdd(a, a), Num(2)), d))
    IN  <<p_new, v_new>>

\* homemade, were it to move by the end velocity instead of the average
homemade_endvel(p, v, d, a) ==
    LET dv    == RMul(a, d)
        v_new == RAdd(v, dv)
        dp    == RMul(v_new, d)
        p_new == RAdd(p, dp)
    IN  <<p_new, v_new>>

homemade(p, v, d, a) ==
    LET dv    == RMul(a, d)
        v_new == RAdd(v, dv)
        v_ave == RDiv(RAdd(v, v_new), Num(2))
        dp    == RMul(v_ave, d)
        p_new == RAdd(p, dp)
    IN  <<p_new, v_new>>

----------------------------------------------------------------------------
(* Bodies.  One record shape for every class; a field a class does not have *)
(* is None.  kind names the class: "body", "active" (body with mass and     *)
(* thrust), "fragment" (body, sprites), "rocket" (autopilot, active,        *)
(* sprites).  id stands for the identity of the Python object.  The glyphs  *)
(* (thing, fragment.speed) are no part of the record: no motion reads them. *)

Vec(x, y) == <<x, y>>

\* body.__init__, with the fields of the subclasses unset
body(id, position, velocity, acceleration) ==
    [ id |-> id, kind |-> "body",
      position |-> position, velocity |-> velocity, acceleration |-> acceleration,
      mass |-> None, thrust |-> None, limit |-> None, target |-> None,
      gains |-> None, timeout |-> None ]

\* active.__init__: mass is required, thrust defaults to 0 on each axis
active(id, position, velocity, acceleration, mass, thrust) ==
    [ body(id, position, velocity, acceleration) EXCEPT
        !.kind = "active", !.mass = mass,
        !.thrust = IF thrust = None THEN Vec(Zero, Zero) ELSE thrust ]

\* fragment.__init__
fragment(id, position, velocity, acceleration, timeout) ==
    [ body(id, position, velocity, acceleration) EXCEPT
        !.kind = "fragment", !.timeout = timeout ]

\* rocket.__init__: autopilot.__init__ (target, the controller built from Kpid),
\* active.__init__, then limit = 4 * -G * mass
rocket(id, position, velocity, acceleration, mass, target, K) ==
    [ active(id, position, velocity, acceleration, mass, None) EXCEPT
        !.kind = "rocket", !.target = target, !.gains = K,
        !.limit = RMul(RMul(Num(4), RNeg(G)), mass) ]

body_done(b) == RLe(b.position[Y], Zero)

\* self.position = pos; self.velocity = vel, x and y being the ( p_new, v_new ) of the axes
moved(b, x, y) == [ b EXCEPT !.position = Vec(x[1], y[1]), !.velocity = Vec(x[2], y[2]) ]

body_advance(b, d) ==
    moved(b, homemade(b.position[X], b.velocity[X], d, b.acceleration[X]),
             homemade(b.position[Y], b.velocity[Y], d, b.acceleration[Y]))

\* What constrain() hands back: the object after the call, and the return value
\* (none: it returned None; otherwise chunks is the replacement list).
Returned(self, none, chunks) == [ self |-> self, none |-> none, chunks |-> chunks ]

\* body.constrain, were it to act on velocity.y <= 0
body_constrain_le(b) ==
    IF RLe(b.position[Y], Zero) /\ RLe(b.velocity[Y], Zero)
    THEN Returned([ b EXCEPT !.position[Y] = Zero,
                             !.velocity = Vec(Zero, Zero),
                             !.acceleration = Vec(Zero, Zero) ], TRUE, <<>>)
    ELSE Returned(b, TRUE, <<>>)

body_constrain(b) ==
    IF RLe(b.position[Y], Zero) /\ RLt(b.velocity[Y], Zero)
    THEN Returned([ b EXCEPT !.position[Y] = Zero,
                             !.velocity = Vec(Zero, Zero),
                             !.acceleration = Vec(Zero, Zero) ], TRUE, <<>>)
    ELSE Returned(b, TRUE, <<>>)

\* [ t/self.mass for t in self.thrust ], then [Y] += G
accelerations(thrust, mass) ==
    [ i \in 1..Len(thrust) |-> RAdd(RDiv(thrust[i], mass), IF i = Y THEN G ELSE Zero) ]

active_advance(b, d) ==
    body_advance([ b EXCEPT !.acceleration = accelerations(b.thrust, b.mass) ], d)

\* autopilot.advance; out is what controller.loop( ... ) returned
autopilot_advance(b, d, out) ==
    active_advance([ b EXCEPT !.thrust[Y] =
                       RDiv(RMul(b.limit, out), Num(100)) ], d)

\* fragment.advance, were it to count every dt against the timeout
fragment_advance_always(b, d) ==
    body_advance(IF b.timeout # None
                 THEN [ b EXCEPT !.timeout = RSub(b.timeout, d) ]
                 ELSE b, d)

fragment_advance(b, d) ==
    body_advance(IF body_done(b) /\ b.timeout # None
                 THEN [ b EXCEPT !.timeout = RSub(b.timeout, d) ]
                 ELSE b, d)

\* fragment.constrain, were it to ignore the timeout
fragment_constrain_forever(b) == body_constrain(b)

fragment_constrain(b) ==
    IF b.timeout # None /\ RLe(b.timeout, Zero)
    THEN Returned(b, FALSE, <<>>)
    ELSE body_constrain(b)

----------------------------------------------------------------------------
(* The random module.  A call's draws come from a stream fixed by a seed    *)
(* the model chooses freely: random( seed, k ) is the k-th random.random()  *)
(* of the stream, a fraction in [0, 1); the streams run over the quarters.  *)

MaxSeed == 8

Seeds == 0..MaxSeed

random(seed, k) == Rat((seed + k * (seed + 1)) % 4, 4)

\* random.uniform( a, b ) == a + (b - a) * random.random()
uniform(a, b, u) == RAdd(a, RMul(RSub(b, a), u))

\* random.randint( 2, 10 ), the first draw of a stream
Counts == 2..10

randint(seed) == 2 + (seed % Cardinality(Counts))

\* sum( v**2 for v in velocity ) ** .5: with an axis at rest, the magnitude of the
\* other; otherwise the root, exact when the sum is a perfect square.
momentum(velocity) ==
    IF velocity[X] = Zero THEN RAbs(velocity[Y])
    ELSE IF velocity[Y] = Zero THEN RAbs(velocity[X])
    ELSE RSqrt(RAdd(RMul(velocity[X], velocity[X]), RMul(velocity[Y], velocity[Y])))

\* the timeout rocket.constrain gives each fragment
FragmentTimeout == 5

\* a chunk, were it placed where the rocket is instead of on the ground
chunk_where_it_fell(b, count, seed, id0, c) ==
    LET m  == momentum(b.velocity)
        hi == RMul(RDiv(m, Num(count)), Num(2))
        lo == RMul(RDiv(RNeg(m), Num(count)), Num(2))
    IN  fragment(id0 + c - 1,
                 Vec(b.position[X], b.position[Y]),
                 Vec(uniform(lo, hi, random(seed, 2 * c - 1)),
                     uniform(lo, hi, random(seed, 2 * c))),
                 Vec(Zero, G),
                 Num(FragmentTimeout))

\* the loop body of rocket.constrain: chunk number c (1..count) of a crash
chunk(b, count, seed, id0, c) ==
    LET m  == momentum(b.velocity)
        hi == RMul(RDiv(m, Num(count)), Num(2))
        lo == RMul(RDiv(RNeg(m), Num(count)), Num(2))
    IN  fragment(id0 + c - 1,
                 Vec(b.position[X], Zero),
                 Vec(uniform(lo, hi, random(seed, 2 * c - 1)),
                     uniform(lo, hi, random(seed, 2 * c))),
                 Vec(Zero, G),
                 Num(FragmentTimeout))

\* rocket.constrain, were a touchdown at exactly -1 m/s a crash
rocket_constrain_at_1(b, seed, id0) ==
    IF RLe(b.position[Y], Zero) /\ RLe(b.velocity[Y], Num(-1))
    THEN LET count == randint(seed)
         IN  Returned(b, FALSE, [ c \in 1..count |-> chunk(b, count, seed, id0, c) ])
    ELSE body_constrain(b)

\* rocket.constrain; id0 is the id of the first chunk
rocket_constrain(b, seed, id0) ==
    IF RLe(b.position[Y], Zero) /\ RLt(b.velocity[Y], Num(-1))
    THEN LET count == randint(seed)
         IN  Returned(b, FALSE, [ c \in 1..count |-> chunk(b, count, seed, id0, c) ])
    ELSE body_constrain(b)

\* Method dispatch by class.
Advance(b, d, out) ==
    CASE b.kind = "rocket"   -> autopilot_advance(b, d, out)
      [] b.kind = "active"   -> active_advance(b, d)
      [] b.kind = "fragment" -> fragment_advance(b, d)
      [] OTHER               -> body_advance(b, d)

Constrain(b, seed, id0) ==
    CASE b.kind = "rocket"   -> rocket_constrain(b, seed, id0)
      [] b.kind = "fragment" -> fragment_constrain(b)
      [] OTHER               -> body_constrain(b)

\* step(), were it to keep a body next to its replacements
replaced_and_kept(r) == IF r.none THEN <<r.self>> ELSE <<r.self>> \o r.chunks

\* step: bodies_new += [b] if replacement is None else replacement
replaced(r) == IF r.none THEN <<r.self>> ELSE r.chunks

----------------------------------------------------------------------------
(* Calls on one body: advance( dt ) and constrain() in any order, from any  *)
(* of the bodies below, as a caller of the classes may make them.           *)

MaxOps == 3

\* time quanta passed to advance(): a tenth of a second (halfdelay( 1 )) and a long one
Dts == { Rat(1, 10), Num(3) }

\* values controller.loop() may return within Lout = (0, 100.0): no thrust, full thrust
Outs == { Zero, Num(100) }

\* the rocket animation() builds: mass=1000, target=[50,30], Kpid = [ 5.0, 1.0, 10.0 ]
Mass == 1000

Kpid0 == <<Num(5), Num(1), Num(10)>>

Target == Vec(Num(50), Num(30))

Velocities ==
    ({ Zero } \X { Num(-40), Num(-2), Num(-1), Rat(-1, 2), Zero, Num(2) })
       \cup { Vec(Num(3), Num(-2)) }

Positions == { Num(50) } \X { Rat(-1, 2), Zero, Num(5), Num(50) }

\* A rocket never moves sideways: animation() builds it with velocity=[0,0] and
\* no thrust, and only thrust[Y] is ever set.
BodyInputs ==
    UNION { { body(0, p, v, a) : a \in { Vec(Zero, G), Vec(Zero, Zero) } }
            \cup { active(0, p, v, Vec(Zero, G), Num(Mass), th) :
                     th \in { None, Vec(Zero, RMul(RNeg(G), Num(Mass))) } }
            \cup { fragment(0, p, v, Vec(Zero, G), tmo) : tmo \in { None, Num(FragmentTimeout) } }
            \cup { rocket(0, p, v, Vec(Zero, G), Num(Mass), Target, Kpid0) : x \in { v[X] } \cap { Zero } }
          : <<p, v>> \in Positions \X Velocities }

NoReturn == Returned(None, TRUE, <<>>)

\* a terminal of 24 rows and 80 columns
Screen == [ rows |-> 24, cols |-> 80 ]

\* a call on a sprite: its arguments, what it returned, whether it raised
Called(call, spr, pos, off, cleartoeol, throwing, choice, value, raised) ==
    [ call |-> call, spr |-> spr, pos |-> pos, off |-> off, cleartoeol |-> cleartoeol,
      throwing |-> throwing, choice |-> choice, value |-> value, raised |-> raised ]

NoCall == Called("none", None, None, None, FALSE, FALSE, 0, None, FALSE)

\* main() not called: the terminal as the shell leaves it (echo, no cbreak, no
\* keypad, curses not initialized), nothing logged
NoMain ==
    [ at |-> "none", keypad |-> FALSE, echo |-> TRUE, cbreak |-> FALSE, halfdelay |-> FALSE,
      curses |-> FALSE, failure |-> None, log |-> <<>>, entered |-> 0 ]

\* no animation, no window, no main(): the variables calls on one body leave alone
NotAnimating ==
    /\ Kpid = Kpid0
    /\ timewarp = Num(1)
    /\ last = Zero
    /\ now = Zero
    /\ dt = Zero
    /\ selected = None
    /\ calls = <<>>
    /\ updated = <<>>
    /\ nextId = 1
    /\ born = <<>>
    /\ grounded = <<>>
    /\ frames = 0
    /\ spawned = 0
    /\ adjusted = 0
    /\ win = Screen
    /\ surface = <<>>
    /\ drawn = NoCall
    /\ term = NoMain

\* a body of the given ones, just constructed
Constructed(inputs) ==
    /\ bodies \in { <<b>> : b \in inputs }
    /\ b0 = bodies[1]
    /\ pre = bodies[1]
    /\ ret = NoReturn
    /\ op = "new"
    /\ t = Zero
    /\ nops = 0
    /\ pc = "test"
    /\ exception = None
    /\ NotAnimating

InitBody == Constructed(BodyInputs)

\* b.advance( dt )
UAdvance(d, out) ==
    /\ nops < MaxOps
    /\ bodies[1].kind # "rocket" => out = Zero
    /\ bodies' = <<Advance(bodies[1], d, out)>>
    /\ pre' = bodies[1]
    /\ op' = "advance"
    /\ t' = RAdd(t, d)
    /\ ret' = NoReturn
    /\ nops' = nops + 1
    /\ UNCHANGED <<b0, animvars, drawvars, mainvars>>

crashes(b) == b.kind = "rocket" /\ ~Constrain(b, 0, 0).none

\* replacement = b.constrain()
UConstrain(seed) ==
    /\ nops < MaxOps
    /\ ~crashes(bodies[1]) => seed = 0
    /\ ret' = Constrain(bodies[1], seed, bodies[1].id + 1)
    /\ bodies' = <<ret'.self>>
    /\ pre' = bodies[1]
    /\ op' = "constrain"
    /\ nops' = nops + 1
    /\ UNCHANGED <<b0, t, animvars, drawvars, mainvars>>

NextBody ==
    \/ \E d \in Dts, out \in Outs : UAdvance(d, out)
    \/ \E seed \in Seeds : UConstrain(seed)

SpecBody == InitBody /\ [][NextBody]_vars

----------------------------------------------------------------------------
(* Construction of a powered body from any arguments, then advance().       *)

\* the mass keyword: missing (None), 0, a positive mass
Masses == { None, Zero, Num(Mass) }

\* the thrust keyword: missing (None), one element, two, three
Thrusts ==
    { None, <<Zero>>, Vec(Zero, RMul(RNeg(G), Num(Mass))),
      <<Zero, RMul(RNeg(G), Num(Mass)), Zero>> }

\* what active.__init__ raises: kwds.pop( 'mass' ) without a mass keyword, else nothing
init_raises(mass, thrust) == IF mass = None THEN <<"KeyError">> ELSE None

\* what active.advance raises on b: the division by self.mass, then acceleration[Y]
advance_raises(b) ==
    IF b.mass = Zero /\ Len(b.thrust) > 0 THEN <<"ZeroDivisionError">>
    ELSE IF Len(b.thrust) < Y THEN <<"IndexError">>
    ELSE None

\* b after an advance() that raised: autopilot.advance has set thrust[Y]; on
\* IndexError self.acceleration has been assigned the quotients
interrupted(b, out) ==
    LET a == IF b.kind = "rocket"
             THEN [ b EXCEPT !.thrust[Y] = RDiv(RMul(b.limit, out), Num(100)) ]
             ELSE b
    IN  IF advance_raises(b) = <<"IndexError">>
        THEN [ a EXCEPT !.acceleration = [ i \in 1..Len(a.thrust) |-> RDiv(a.thrust[i], a.mass) ] ]
        ELSE a

InitConstruct ==
    /\ bodies = <<>>
    /\ b0 = None
    /\ pre = None
    /\ ret = NoReturn
    /\ op = "none"
    /\ t = Zero
    /\ nops = 0
    /\ pc = "test"
    /\ exception = None
    /\ NotAnimating

\* active( ..., mass=mass, thrust=thrust ) or rocket( ..., mass=mass ), a keyword
\* that is None being left out
Construct(kind, position, velocity, mass, thrust) ==
    /\ op = "none"
    /\ kind = "rocket" => thrust = None
    /\ exception' = init_raises(mass, thrust)
    /\ bodies' = IF exception' # None THEN <<>>
                  ELSE IF kind = "rocket"
                       THEN <<rocket(0, position, velocity, Vec(Zero, G), mass, Target, Kpid0)>>
                       ELSE <<active(0, position, velocity, Vec(Zero, G), mass, thrust)>>
    /\ b0' = IF bodies' = <<>> THEN None ELSE bodies'[1]
    /\ op' = "__init__"
    /\ UNCHANGED <<pre, ret, t, nops, animvars, drawvars, term>>

\* the first loop of step() reaches the body: b.advance( dt, now )
AdvanceConstructed(d, out) ==
    /\ op # "none"
    /\ bodies # <<>>
    /\ exception = None
    /\ nops < MaxOps
    /\ bodies[1].kind # "rocket" => out = Zero
    /\ exception' = advance_raises(bodies[1])
    /\ bodies' = IF exception' = None
                  THEN <<Advance(bodies[1], d, out)>>
                  ELSE <<interrupted(bodies[1], out)>>
    /\ pre' = bodies[1]
    /\ op' = "advance"
    /\ t' = RAdd(t, d)
    /\ nops' = nops + 1
    /\ UNCHANGED <<b0, ret, animvars, drawvars, term>>

NextConstruct ==
    \/ \E kind \in { "active", "rocket" }, position \in Positions, velocity \in Velocities,
          mass \in Masses, thrust \in Thrusts :
          Construct(kind, position, velocity, mass, thrust)
    \/ \E d \in Dts, out \in Outs : AdvanceConstructed(d, out)

SpecConstruct == InitConstruct /\ [][NextConstruct]_vars

----------------------------------------------------------------------------
(* step() and animation()'s loop. *)

MaxFrames == 2

MaxSpawn == 1

MaxAdjust == 1

\* timer() when animation() starts
StartTimes == { Num(100) }

\* timer() - last at a frame: the 0.1 s of halfdelay( 1 ), or a slow frame
WallDeltas == { Rat(1, 10), Rat(1, 2) }

\* win.getch(): "" stands for no key within the halfdelay (or a key no test matches)
WarpKeys == { "W", "w" }

\* the keys of "PID" tried here: the first and the last gain, one raised, one lowered
PidKeys == { "P", "d" }

DigitKeys == { "0", "9" }

\* int( chr( input ))
digit(key) == CASE key = "0" -> 0 [] key = "9" -> 9

\* "PID".index( chr( input ).upper() ), as an index from 1
pid_index(key) ==
    CASE key \in { "P", "p" } -> 1 [] key \in { "I", "i" } -> 2 [] key \in { "D", "d" } -> 3

\* misc.magnitude( val ) is no code of this file; taken to be the power of ten one
\* order below val's own (0.1 for 1 <= val < 10), for 0.1 <= val < 100
magnitude(val) ==
    CASE RLt(val, Num(1))  -> Rat(1, 100)
      [] RLt(val, Num(10)) -> Rat(1, 10)
      [] OTHER             -> Num(1)

\* val += inc + inc/100 if <upper case> else -inc + inc/100; val -= val % inc
adjust(val, inc, up) ==
    LET v == RAdd(val, IF up THEN RAdd(inc, RDiv(inc, Num(100)))
                             ELSE RAdd(RNeg(inc), RDiv(inc, Num(100))))
    IN  RSub(v, RMod(v, inc))

has_controller(b) == b.kind = "rocket"

has_limit(b) == b.kind \in { "active", "rocket" }

\* the PID keys: Kpid[index] is adjusted ...
tune(K, key, inc) ==
    IF key \in PidKeys
    THEN [ K EXCEPT ![pid_index(key)] = adjust(K[pid_index(key)], inc, key \in { "P", "I", "D" }) ]
    ELSE K

\* the PID keys, were the controllers left alone
no_propagate(bs, K, key) == bs

\* ... and every body with a controller is given Kp, Ki, Kd = Kpid
propagate(bs, K, key) ==
    IF key \in PidKeys
    THEN [ i \in 1..Len(bs) |-> IF has_controller(bs[i]) THEN [ bs[i] EXCEPT !.gains = K ] ELSE bs[i] ]
    ELSE bs

\* the x key: the first body with a controller is popped
pop_first(bs, key) ==
    IF key = "x" /\ \E i \in 1..Len(bs) : has_controller(bs[i])
    THEN LET i == CHOOSE i \in 1..Len(bs) :
                     has_controller(bs[i]) /\ \A j \in 1..(i - 1) : ~has_controller(bs[j])
         IN  SubSeq(bs, 1, i - 1) \o SubSeq(bs, i + 1, Len(bs))
    ELSE bs

\* the digit keys, were the digit not divided by 10
select_all(bs, key) ==
    IF key \in DigitKeys
    THEN [ i \in 1..Len(bs) |->
             IF has_limit(bs[i])
             THEN [ bs[i] EXCEPT !.thrust[Y] = RMul(Num(digit(key)), bs[i].limit) ]
             ELSE bs[i] ]
    ELSE bs

\* the digit keys: b.thrust[Y] = int( chr( input )) * b.limit / 10
select(bs, key) ==
    IF key \in DigitKeys
    THEN [ i \in 1..Len(bs) |->
             IF has_limit(bs[i])
             THEN [ bs[i] EXCEPT !.thrust[Y] =
                      RDiv(RMul(Num(digit(key)), bs[i].limit), Num(10)) ]
             ELSE bs[i] ]
    ELSE bs

\* the space key: a new rocket at [50, 0], at rest
spawn(bs, key, K, id) ==
    IF key = " "
    THEN Append(bs, rocket(id, Vec(Num(50), Zero), Vec(Zero, Zero), Vec(Zero, G),
                           Num(Mass), Target, K))
    ELSE bs

\* step( bodies, win, dt, now ).  One pass of its first loop on body b: d and n are
\* the dt and now passed to b.advance( dt, now ), a is b after it, r what
\* b.constrain() returns
called(b, a, r, d, n) == [ b |-> b, advanced |-> a, replacement |-> r, dt |-> d, now |-> n ]

\* bodies_new += [b] if replacement is None else replacement; id is the next free id
extended(acc, c) ==
    [ bodies_new |-> acc.bodies_new \o replaced(c.replacement),
      calls      |-> Append(acc.calls, c),
      id         |-> acc.id + (IF c.replacement.none THEN 0 ELSE Len(c.replacement.chunks)) ]

advanced_and_constrained(b, a, seed, id, d, n) == called(b, a, Constrain(a, seed, id), d, n)

\* the first loop from body i on: outs[i] is what body i's controller.loop()
\* returns, seed fixes the random stream
RECURSIVE step_from(_, _, _, _, _, _, _)
step_from(bs, i, d, n, outs, seed, acc) ==
    IF i > Len(bs) THEN acc
    ELSE step_from(bs, i + 1, d, n, outs, seed,
                   extended(acc,
                            advanced_and_constrained(
                                bs[i],
                                Advance(bs[i], d, IF has_controller(bs[i]) THEN outs[i] ELSE Zero),
                                (seed + i - 1) % (MaxSeed + 1),
                                acc.id, d, n)))

\* a call of b.update( win ): the body, and how many passes of the first loop
\* (advance, constrain) were complete when it was made
update(id, after) == [ id |-> id, after |-> after ]

\* step(), were it to update each body within the first loop, right after its constrain()
with_updates_in_loop(s) ==
    [ bodies_new |-> s.bodies_new, calls |-> s.calls, id |-> s.id,
      updated |-> [ i \in 1..Len(s.calls) |-> update(s.calls[i].b.id, i) ] ]

\* the second loop: b.update( win ) for b in bodies_new
with_updates(s) ==
    [ bodies_new |-> s.bodies_new, calls |-> s.calls, id |-> s.id,
      updated |-> [ i \in 1..Len(s.bodies_new) |-> update(s.bodies_new[i].id, Len(s.calls)) ] ]

step(bs, d, n, outs, seed, id) ==
    with_updates(step_from(bs, 1, d, n, outs, seed,
                           [ bodies_new |-> <<>>, calls |-> <<>>, id |-> id ]))

rockets_of(bs) == { i \in 1..Len(bs) : has_controller(bs[i]) }

crash_in(bs, d, outs) ==
    \E i \in rockets_of(bs) : ~Constrain(Advance(bs[i], d, outs[i]), 0, 0).none

\* the wall-clock delta, not scaled (what warped must differ from)
unwarped(real, was, warp) == RSub(real, was)

\* dt = ( real - last ) * timewarp
warped(real, was, warp) == RMul(RSub(real, was), warp)

\* One iteration of animation()'s loop with a key other than q: the key's handler,
\* the time advance, step().
Iteration(key, inc, delta) ==
    /\ pc = "animation"
    /\ timewarp' = (IF key \in WarpKeys THEN adjust(timewarp, inc, key = "W") ELSE timewarp)
    /\ Kpid' = tune(Kpid, key, inc)
    /\ last' = RAdd(last, delta)
    /\ dt' = warped(last', last, timewarp')
    /\ now' = RAdd(now, dt')
    /\ \E bs \in { spawn(select(pop_first(propagate(bodies, Kpid', key), key), key), key, Kpid', nextId) } :
       \E outs \in [ rockets_of(bs) -> Outs ], seed \in Seeds :
          /\ seed # 0 => crash_in(bs, dt', outs)
          /\ \E s \in { step(bs, dt', now', outs, seed, Len(bs) - Len(bodies) + nextId) } :
                /\ bodies' = s.bodies_new
                /\ calls' = s.calls
                /\ updated' = s.updated
                /\ nextId' = s.id
                /\ born' = [ i \in 0..(s.id - 1) |->
                               IF i < nextId THEN born[i]
                               ELSE IF key = " " /\ i = nextId THEN now ELSE now' ]
                /\ grounded' = [ i \in 0..(s.id - 1) |->
                               IF \E c \in 1..Len(bs) : bs[c].id = i /\ body_done(bs[c])
                               THEN RAdd(IF i < nextId THEN grounded[i] ELSE Zero, dt')
                               ELSE IF i < nextId THEN grounded[i] ELSE Zero ]
    /\ selected' = (IF key \in DigitKeys THEN <<digit(key)>> ELSE None)
    /\ frames' = frames + 1
    /\ spawned' = IF key = " " THEN spawned + 1 ELSE spawned
    /\ adjusted' = IF key \in PidKeys THEN adjusted + 1 ELSE adjusted
    /\ UNCHANGED <<pc, bodyvars, drawvars, mainvars>>

\* q: break
KeyQuit ==
    /\ pc = "animation"
    /\ pc' = "returned"
    /\ selected' = None
    /\ UNCHANGED <<bodies, bodyvars, drawvars, mainvars, Kpid, timewarp, last, now, dt, calls,
                   updated, nextId, born, grounded, frames, spawned, adjusted>>

\* the time warps the model follows
Timewarps == { Num(1), Rat(11, 10) }

KeyWarp(key, delta) ==
    /\ key \in WarpKeys
    /\ frames < MaxFrames
    /\ adjust(timewarp, magnitude(timewarp), key = "W") \in Timewarps
    /\ Iteration(key, magnitude(timewarp), delta)

KeyPID(key, delta) ==
    /\ key \in PidKeys
    /\ frames < MaxFrames
    /\ adjusted < MaxAdjust
    /\ Iteration(key, magnitude(Kpid[pid_index(key)]), delta)

KeyX(delta) == frames < MaxFrames /\ Iteration("x", Zero, delta)

KeyDigit(key, delta) == key \in DigitKeys /\ frames < MaxFrames /\ Iteration(key, Zero, delta)

KeySpace(delta) == frames < MaxFrames /\ spawned < MaxSpawn /\ Iteration(" ", Zero, delta)

NoKey(delta) == frames < MaxFrames /\ Iteration("", Zero, delta)

Init ==
    /\ pc = "animation"
    /\ last \in StartTimes
    /\ now = last
    /\ dt = Zero
    /\ bodies = <<>>
    /\ Kpid = Kpid0
    /\ timewarp = Num(1)
    /\ selected = None
    /\ calls = <<>>
    /\ updated = <<>>
    /\ nextId = 0
    /\ born = <<>>
    /\ grounded = <<>>
    /\ frames = 0
    /\ spawned = 0
    /\ adjusted = 0
    /\ ret = NoReturn
    /\ op = "none"
    /\ pre = None
    /\ b0 = None
    /\ t = Zero
    /\ nops = 0
    /\ win = Screen
    /\ surface = <<>>
    /\ drawn = NoCall
    /\ term = NoMain
    /\ exception = None

Next ==
    \/ KeyQuit
    \/ \E key \in WarpKeys, delta \in WallDeltas : KeyWarp(key, delta)
    \/ \E key \in PidKeys, delta \in WallDeltas : KeyPID(key, delta)
    \/ \E delta \in WallDeltas : KeyX(delta)
    \/ \E key \in DigitKeys, delta \in WallDeltas : KeyDigit(key, delta)
    \/ \E delta \in WallDeltas : KeySpace(delta)
    \/ \E delta \in WallDeltas : NoKey(delta)

Spec == Init /\ [][Next]_vars

----------------------------------------------------------------------------
(* Debris: the loop from its start, a rocket spawned by the first key and   *)
(* frames of no key after it, the frames short or long.                    *)

MaxDebrisFrames == 3

\* timer() - last at a frame: the 0.1 s of halfdelay( 1 ), or a stalled terminal
DebrisDeltas == { Rat(1, 10), Num(6) }

DebrisSpawn(delta) == frames = 0 /\ Iteration(" ", Zero, delta)

DebrisFrame(delta) == frames > 0 /\ frames < MaxDebrisFrames /\ Iteration("", Zero, delta)

\* space again while the debris of the first rocket is still there
DebrisRespawn(delta) == frames = MaxDebrisFrames - 1 /\ Iteration(" ", Zero, delta)

NextDebris ==
    \/ \E delta \in DebrisDeltas : DebrisSpawn(delta)
    \/ \E delta \in DebrisDeltas : DebrisFrame(delta)
    \/ \E delta \in DebrisDeltas : DebrisRespawn(delta)

SpecDebris == Init /\ [][NextDebris]_vars

----------------------------------------------------------------------------
(* One fragment of a crash, frame after frame until step() drops it.  Each   *)
(* frame is the first loop of step() on the fragment: advance( dt ), then    *)
(* constrain().  The loop goes on as long as the program runs, so a frame is *)
(* always eventually taken.                                                  *)

\* the dt of a frame: half a second, a second
LifeDts == { Rat(1, 2), Num(1) }

\* the velocities of the rockets that crash
CrashVelocities == { Vec(Zero, Num(-40)), Vec(Zero, Num(-2)) }

\* the fragments rocket.constrain() builds
Fragments ==
    UNION { { chunk(rocket(0, Vec(Num(50), Zero), v, Vec(Zero, G), Num(Mass), Target, Kpid0),
                    randint(seed), seed, 1, c) : c \in 1..randint(seed) }
            : <<v, seed>> \in CrashVelocities \X Seeds }

InitLife == Constructed(Fragments)

crumbled(b, a, r) ==
    /\ bodies' = replaced(r)
    /\ ret' = r
    /\ pre' = b

LifeFrame(d) ==
    /\ bodies # <<>>
    /\ \E a \in { Advance(bodies[1], d, Zero) } : crumbled(bodies[1], a, Constrain(a, 0, 0))
    /\ op' = "frame"
    /\ t' = RAdd(t, d)
    /\ UNCHANGED <<b0, nops, animvars, drawvars, mainvars>>

NextLife == \E d \in LifeDts : LifeFrame(d)

\* a frame is taken: every step of NextLife adds the frame's dt to t, and it is
\* enabled exactly while the fragment is there
Ticking == bodies # <<>> /\ \E d \in LifeDts : t' = RAdd(t, d)

\* weak fairness of the frames, stated on the clock
SpecLife == InitLife /\ [][NextLife]_vars /\ WF_t(Ticking)

----------------------------------------------------------------------------
(* One body, frame after frame: each frame is one pass of step()'s first     *)
(* loop on it, advance( dt ) then constrain().  The body starts as a frame   *)
(* can leave it: above ground, or on the ground and not moving down.         *)

\* the dt of a frame: a tenth of a second, and frames stretched by a slow
\* terminal or a time warp
FrameDts == { Rat(1, 10), Rat(1, 2), Num(2) }

\* at the start of a frame
FrameInputs ==
    { b \in BodyInputs :
        \/ RLt(Zero, b.position[Y])
        \/ b.position[Y] = Zero /\ RLe(Zero, b.velocity[Y]) }

InitFrames == Constructed(FrameInputs)

BodyFrame(d, out, seed) ==
    /\ Len(bodies) = 1
    /\ nops < MaxOps
    /\ bodies[1].kind # "rocket" => out = Zero
    /\ \E a \in { Advance(bodies[1], d, out) } :
          /\ seed # 0 => crashes(a)
          /\ crumbled(bodies[1], a, Constrain(a, seed, 1))
    /\ op' = "frame"
    /\ t' = RAdd(t, d)
    /\ nops' = nops + 1
    /\ UNCHANGED <<b0, animvars, drawvars, mainvars>>

NextFrames == \E d \in FrameDts, out \in Outs, seed \in Seeds : BodyFrame(d, out, seed)

SpecFrames == InitFrames /\ [][NextFrames]_vars

----------------------------------------------------------------------------
(* main( animate ): curses set up, animate( stdscr ) inside try, the except  *)
(* and finally clauses, the log.  term.at is the statement main() is at.     *)

MaxMainFrames == 2

\* what the loop may raise: an error of curses, ^C
Exceptions == { "curses.error", "KeyboardInterrupt" }

\* `except:` with no class, were it `except Exception:`
caught_if_Exception(e) == e # "KeyboardInterrupt"

\* `except:` with no class catches every exception
caught(e) == TRUE

InitMain ==
    /\ term = [ NoMain EXCEPT !.at = "initscr" ]
    /\ exception = None
    /\ pc = "main"
    /\ last \in StartTimes
    /\ now = last
    /\ dt = Zero
    /\ bodies = <<>>
    /\ Kpid = Kpid0
    /\ timewarp = Num(1)
    /\ selected = None
    /\ calls = <<>>
    /\ updated = <<>>
    /\ nextId = 0
    /\ born = <<>>
    /\ grounded = <<>>
    /\ frames = 0
    /\ spawned = 0
    /\ adjusted = 0
    /\ ret = NoReturn
    /\ op = "none"
    /\ pre = None
    /\ b0 = None
    /\ t = Zero
    /\ nops = 0
    /\ win = Screen
    /\ surface = <<>>
    /\ drawn = NoCall

\* a statement of main() outside animate(): from where, the terminal and main()'s
\* locals after it
Statement(from, after) ==
    /\ term.at = from
    /\ term' = after
    /\ UNCHANGED <<bodies, bodyvars, animvars, drawvars, exception>>

\* stdscr=curses.initscr()
Initscr == Statement("initscr", [ term EXCEPT !.at = "noecho", !.curses = TRUE ])

Noecho == Statement("noecho", [ term EXCEPT !.at = "cbreak", !.echo = FALSE ])

Cbreak == Statement("cbreak", [ term EXCEPT !.at = "halfdelay", !.cbreak = TRUE ])

Halfdelay == Statement("halfdelay", [ term EXCEPT !.at = "keypad", !.halfdelay = TRUE ])

\* stdscr.keypad( 1 )
Keypad == Statement("keypad", [ term EXCEPT !.at = "animate", !.keypad = TRUE ])

\* animate( stdscr ) is called
Animate ==
    /\ term.at = "animate"
    /\ pc = "main"
    /\ pc' = "animation"
    /\ term' = [ term EXCEPT !.at = "animation", !.entered = @ + 1 ]
    /\ UNCHANGED <<bodies, bodyvars, drawvars, exception, Kpid, timewarp, last, now, dt, selected, calls,
                   updated, nextId, born, grounded, frames, spawned, adjusted>>

\* an iteration of the loop that raises nothing: no key, or space
MainFrame(key, delta) ==
    /\ term.at = "animation"
    /\ frames < MaxMainFrames
    /\ key = " " => spawned < MaxSpawn
    /\ Iteration(key, Zero, delta)

\* q: animate() returns, main() goes on to the finally clause
MainQuit ==
    /\ term.at = "animation"
    /\ pc = "animation"
    /\ pc' = "returned"
    /\ term' = [ term EXCEPT !.at = "keypad( 0 )" ]
    /\ UNCHANGED <<bodies, bodyvars, drawvars, exception, Kpid, timewarp, last, now, dt, selected, calls,
                   updated, nextId, born, grounded, frames, spawned, adjusted>>

\* an iteration of the loop raises e: control leaves animate() for the except
\* clause if it catches e, else for the finally clause
Raise(e) ==
    /\ term.at = "animation"
    /\ pc = "animation"
    /\ pc' = "raised"
    /\ term' = [ term EXCEPT !.at = IF caught(e) THEN "except" ELSE "keypad( 0 )" ]
    /\ exception' = <<e>>
    /\ UNCHANGED <<bodies, bodyvars, drawvars, Kpid, timewarp, last, now, dt, selected, calls,
                   updated, nextId, born, grounded, frames, spawned, adjusted>>

\* failure = traceback.format_exc()
Except == Statement("except", [ term EXCEPT !.at = "keypad( 0 )", !.failure = exception ])

\* finally: stdscr.keypad( 0 )
Keypad0 == Statement("keypad( 0 )", [ term EXCEPT !.at = "echo", !.keypad = FALSE ])

Echo == Statement("echo", [ term EXCEPT !.at = "nocbreak", !.echo = TRUE ])

\* curses.nocbreak() also leaves half-delay mode
Nocbreak ==
    Statement("nocbreak", [ term EXCEPT !.at = "endwin", !.cbreak = FALSE, !.halfdelay = FALSE ])

Endwin == Statement("endwin", [ term EXCEPT !.at = "sleep", !.curses = FALSE ])

\* time.sleep( .1 ) ends the finally clause: an exception that was not caught
\* propagates to the caller of main(), otherwise `if failure:` is next
Sleep ==
    Statement("sleep",
              [ term EXCEPT !.at = IF exception # None /\ term.failure = None
                                  THEN "propagated" ELSE "if failure" ])

\* if failure: logging.error( "Curses GUI Exception: %s", failure )
Log ==
    /\ term.failure # None
    /\ Statement("if failure", [ term EXCEPT !.at = "returned", !.log = Append(@, term.failure[1]) ])

NoLog ==
    /\ term.failure = None
    /\ Statement("if failure", [ term EXCEPT !.at = "returned" ])

NextMain ==
    \/ Initscr
    \/ Noecho
    \/ Cbreak
    \/ Halfdelay
    \/ Keypad
    \/ Animate
    \/ \E key \in { "", " " }, delta \in WallDeltas : MainFrame(key, delta)
    \/ MainQuit
    \/ \E e \in Exceptions : Raise(e)
    \/ Except
    \/ Keypad0
    \/ Echo
    \/ Nocbreak
    \/ Endwin
    \/ Sleep
    \/ Log
    \/ NoLog

SpecMain == InitMain /\ [][NextMain]_vars

----------------------------------------------------------------------------
(* The sprite layer.  A sprite is [ class, isstr, thing, parts ]: thing is  *)
(* the strs a sprite whose thing is a str may show (its one str, or each   *)
(* character of an exhaust's str), parts the [ (off, spr), ... ] of a      *)
(* sprite whose thing is a list.                                           *)

sprite(thing) == [ class |-> "sprite", isstr |-> TRUE, thing |-> <<thing>>, parts |-> <<>> ]

\* an exhaust's str, as the sequence of its characters
exhaust(thing) == [ class |-> "exhaust", isstr |-> TRUE, thing |-> thing, parts |-> <<>> ]

sprites(thing) == [ class |-> "sprites", isstr |-> FALSE, thing |-> <<>>, parts |-> thing ]

\* a sprites whose thing is a str, as a fragment's
sprites_str(thing) == [ class |-> "sprites", isstr |-> TRUE, thing |-> <<thing>>, parts |-> <<>> ]

\* a str in a list of parts: [ ..., ( off, 'a' ), ... ]
str(thing) == [ class |-> "str", isstr |-> TRUE, thing |-> <<thing>>, parts |-> <<>> ]

\* spr.thing; exhaust's getter is random.choice of its str, choice fixing the random draw
thing(spr, choice) ==
    IF spr.class = "exhaust" THEN spr.thing[1 + (choice % Len(spr.thing))] ELSE spr.thing[1]

\* sprite.offset
offset(pos, off) ==
    LET p == IF pos = None THEN Vec(Zero, Zero) ELSE pos
    IN  IF off = None THEN p ELSE Vec(RAdd(p[X], off[X]), RAdd(p[Y], off[Y]))

\* sprite.clip: raised is whether Clipped is raised, value what is returned otherwise
clip(w, pos, throwing) ==
    LET x == RMul(pos[X], Num(2))
        y == RSub(Num(w.rows - 1), pos[Y])
    IN  IF Trunc(y) < 0 \/ Trunc(y) >= w.rows \/ Trunc(x) < 0 \/ Trunc(x) >= w.cols
        THEN [ raised |-> throwing, value |-> None ]
        ELSE [ raised |-> FALSE, value |-> Vec(x, y) ]

\* the calls on win
move(y, x) == [ op |-> "move", y |-> y, x |-> x, str |-> "" ]

clrtoeol(y, x) == [ op |-> "clrtoeol", y |-> y, x |-> x, str |-> "" ]

addstr(y, x, s) == [ op |-> "addstr", y |-> y, x |-> x, str |-> s ]

\* sprite.draw, were Clipped not caught
sprite_draw_uncaught(w, spr, pos, off, cleartoeol, choice) ==
    LET c == clip(w, offset(pos, off), TRUE)
        y == Trunc(c.value[Y])
        x == Trunc(c.value[X])
    IN  IF c.raised THEN [ ops |-> <<>>, raised |-> TRUE ]
        ELSE [ ops |-> (IF cleartoeol THEN <<move(y, x), clrtoeol(y, x)>> ELSE <<>>)
                          \o <<addstr(y, x, thing(spr, choice))>>,
               raised |-> FALSE ]

\* sprite.draw: ops is what it does on win, raised whether it raises
sprite_draw(w, spr, pos, off, cleartoeol, choice) ==
    LET c == clip(w, offset(pos, off), TRUE)
        y == Trunc(c.value[Y])
        x == Trunc(c.value[X])
    IN  IF c.raised THEN [ ops |-> <<>>, raised |-> FALSE ]
        ELSE [ ops |-> (IF cleartoeol THEN <<move(y, x), clrtoeol(y, x)>> ELSE <<>>)
                          \o <<addstr(y, x, thing(spr, choice))>>,
               raised |-> FALSE ]

\* sprites.draw, and its loop over self.thing from part i on; a part's draw that
\* raises ends the loop and the call
RECURSIVE sprites_draw(_, _, _, _, _, _)
RECURSIVE sprites_draw_parts(_, _, _, _, _, _, _)
sprites_draw(w, spr, pos, off, cleartoeol, choice) ==
    IF spr.isstr THEN sprite_draw(w, spr, pos, off, cleartoeol, choice)
    ELSE sprites_draw_parts(w, spr.parts, 1, offset(pos, off), cleartoeol, choice, <<>>)

sprites_draw_parts(w, parts, i, pos, cleartoeol, choice, ops) ==
    IF i > Len(parts) THEN [ ops |-> ops, raised |-> FALSE ]
    ELSE LET off == parts[i][1]
             spr == parts[i][2]
             r   == IF spr.class = "sprites"
                    THEN sprites_draw(w, spr, pos, off, cleartoeol, choice)
                    ELSE sprite_draw(w, spr, pos, off, cleartoeol, choice)
         IN  IF r.raised THEN [ ops |-> ops \o r.ops, raised |-> TRUE ]
             ELSE sprites_draw_parts(w, parts, i + 1, pos, cleartoeol, choice, ops \o r.ops)

\* the windows, things, positions and offsets drawn
Windows == { [ rows |-> 1, cols |-> 1 ], [ rows |-> 2, cols |-> 3 ], [ rows |-> 4, cols |-> 8 ] }

Glyphs == { sprite("^"), exhaust(<<"|", "!">>), sprites_str("x") }

\* a rocket's thing, cut after its third part as rocket.thing cuts it, and a flame
Things ==
    { sprites(<< <<Vec(Zero, Num(1)), str("^")>>,
                 <<Vec(Zero, Zero), exhaust(<<"|", "!">>)>>,
                 <<Vec(Zero, Num(-1)), sprites(<< <<Vec(Zero, Zero), exhaust(<<";", ".">>)>> >>)>> >>),
      sprites(<< <<Vec(Rat(-1, 2), Zero), exhaust(<<"(">>)>>,
                 <<Vec(Zero, Zero), exhaust(<<"X", "O">>)>>,
                 <<Vec(Rat(1, 2), Zero), exhaust(<<")">>)>>,
                 <<Vec(Zero, Num(-1)), exhaust(<<"x", "o">>)>> >>) }

Cells ==
    { Rat(-1, 4), Zero, Rat(3, 2), Num(4) }
        \X { Num(-1), Rat(-1, 2), Zero, Num(3), Rat(7, 2), Num(4) }

\* where draw() is called: on the ground, on and just above the top row of a
\* window of 4 rows, and beyond the last column
DrawCells == { Zero, Num(4) } \X { Zero, Num(3), Rat(7, 2) }

Offsets == { None, Vec(Rat(1, 2), Num(-1)) }

Choices == 0..1

Idle ==
    /\ bodies = <<>>
    /\ ret = NoReturn
    /\ op = "none"
    /\ pre = None
    /\ b0 = None
    /\ t = Zero
    /\ nops = 0
    /\ pc = "draw"
    /\ term = NoMain
    /\ exception = None
    /\ Kpid = Kpid0
    /\ timewarp = Num(1)
    /\ last = Zero
    /\ now = Zero
    /\ dt = Zero
    /\ selected = None
    /\ calls = <<>>
    /\ updated = <<>>
    /\ nextId = 0
    /\ born = <<>>
    /\ grounded = <<>>
    /\ frames = 0
    /\ spawned = 0
    /\ adjusted = 0

InitDraw ==
    /\ Idle
    /\ win \in Windows
    /\ surface = <<>>
    /\ drawn = NoCall

\* spr.clip( win, pos, throwing )
Clip(pos, throwing) ==
    /\ drawn' = Called("clip", None, pos, None, FALSE, throwing, 0,
                       clip(win, pos, throwing).value, clip(win, pos, throwing).raised)
    /\ surface' = <<>>
    /\ UNCHANGED <<win, bodies, bodyvars, animvars, mainvars>>

\* spr.draw( win, pos, off, cleartoeol ) of a sprite or an exhaust
Draw(spr, pos, off, cleartoeol, choice) ==
    /\ spr.class \in { "sprite", "exhaust" }
    /\ spr.class = "sprite" => choice = 0
    /\ surface' = sprite_draw(win, spr, pos, off, cleartoeol, choice).ops
    /\ drawn' = Called("sprite.draw", spr, pos, off, cleartoeol, TRUE, choice, None,
                       sprite_draw(win, spr, pos, off, cleartoeol, choice).raised)
    /\ UNCHANGED <<win, bodies, bodyvars, animvars, mainvars>>

\* spr.draw( win, pos, off, cleartoeol ) of a sprites
DrawSprites(spr, pos, off, cleartoeol, choice) ==
    /\ spr.class = "sprites"
    /\ spr.isstr => choice = 0
    /\ surface' = sprites_draw(win, spr, pos, off, cleartoeol, choice).ops
    /\ drawn' = Called("sprites.draw", spr, pos, off, cleartoeol, TRUE, choice, None,
                       sprites_draw(win, spr, pos, off, cleartoeol, choice).raised)
    /\ UNCHANGED <<win, bodies, bodyvars, animvars, mainvars>>

NextDraw ==
    \/ \E pos \in Cells, throwing \in BOOLEAN : Clip(pos, throwing)
    \/ \E spr \in Glyphs, pos \in DrawCells \cup { None }, off \in Offsets,
          cleartoeol \in BOOLEAN, choice \in Choices :
          Draw(spr, pos, off, cleartoeol, choice)
    \/ \E spr \in Glyphs \cup Things, pos \in DrawCells,
          cleartoeol \in BOOLEAN, choice \in Choices :
          DrawSprites(spr, pos, None, cleartoeol, choice)

SpecDraw == InitDraw /\ [][NextDraw]_vars

----------------------------------------------------------------------------
(* Properties of the calls on one body (SpecBody). *)

hard_landing(b) == RLe(b.position[Y], Zero) /\ RLt(b.velocity[Y], Num(-1))

soft_landing(b) ==
    /\ RLe(b.position[Y], Zero)
    /\ RLe(Num(-1), b.velocity[Y])
    /\ RLt(b.velocity[Y], Zero)

is_fragments(chunks) ==
    Len(chunks) > 0 /\ \A c \in 1..Len(chunks) : chunks[c].kind = "fragment"

resting(b) == b.position[Y] = Zero /\ b.velocity = Vec(Zero, Zero)

\* C1: rocket.constrain() returns a replacement list of fragments if and only if,
\* when called, position.y <= 0 and velocity.y < -1; with position.y <= 0 and
\* -1 <= velocity.y < 0 it snaps position.y to 0, zeroes velocity and
\* acceleration, returns None, and the rocket is what the active set keeps.
C1_CrashIffHardLanding ==
    (op = "constrain" /\ pre.kind = "rocket") =>
        /\ (~ret.none /\ is_fragments(ret.chunks)) <=> hard_landing(pre)
        /\ ret.none <=> ~hard_landing(pre)
        /\ soft_landing(pre) =>
              /\ ret.none
              /\ ret.self = [ pre EXCEPT !.position[Y] = Zero,
                                         !.velocity = Vec(Zero, Zero),
                                         !.acceleration = Vec(Zero, Zero) ]
              /\ replaced(ret) = <<ret.self>>

C1_Witness ==
    /\ op = "constrain" /\ pre.kind = "rocket"
    /\ hard_landing(pre) /\ pre.velocity[Y] # Num(-40) /\ pre.velocity[Y] # Num(-2)
    /\ ~ret.none /\ is_fragments(ret.chunks)

\* C2: a crash returns between 2 and 10 fragments, each at (the rocket's x, 0),
\* with acceleration (0, G) and the finite lifetime timeout = 5.
C2_CrashFragments ==
    (op = "constrain" /\ pre.kind = "rocket" /\ ~ret.none) =>
        /\ Len(ret.chunks) >= 2 /\ Len(ret.chunks) <= 10
        /\ \A c \in 1..Len(ret.chunks) :
              /\ ret.chunks[c].kind = "fragment"
              /\ ret.chunks[c].position = Vec(pre.position[X], Zero)
              /\ ret.chunks[c].acceleration = Vec(Zero, G)
              /\ ret.chunks[c].timeout = Num(5)

C2_Witness ==
    /\ op = "constrain" /\ pre.kind = "rocket" /\ ~ret.none
    /\ Len(ret.chunks) = 10
    /\ RLt(pre.position[Y], Zero)
    /\ \E c \in 1..10 : RLt(Zero, ret.chunks[c].velocity[X])
    /\ \E c \in 1..10 : RLt(ret.chunks[c].velocity[Y], Zero)

\* C6: constrain() on a resting body (position.y == 0, velocity == (0,0); a plain
\* body, a rocket, a fragment with lifetime remaining) returns None and leaves
\* position, velocity and acceleration as they were; and a second constrain()
\* right after any constrain() leaves the state the first one left.
C6_ConstrainIdempotent ==
    op = "constrain" =>
        /\ (resting(pre) /\ (pre.timeout = None \/ RLt(Zero, pre.timeout))) =>
              (ret.none /\ bodies[1] = pre)
        /\ \A seed \in Seeds :
              Constrain(bodies[1], seed, bodies[1].id + 1).self = bodies[1]

C6_Witness ==
    /\ op = "constrain" /\ resting(pre) /\ pre.kind = "fragment"
    /\ pre.timeout = Num(5) /\ pre.acceleration = Vec(Zero, G)
    /\ ret.none /\ bodies[1] = pre

above_ground_projectile ==
    /\ bodies[1].kind \in { "body", "active" }
    /\ bodies[1].kind = "body" => b0.acceleration = Vec(Zero, G)
    /\ bodies[1].kind = "active" => b0.thrust = Vec(Zero, Zero)
    /\ RLt(Zero, b0.position[Y])
    /\ RLe(Zero, b0.velocity[Y])
    /\ RLt(Zero, bodies[1].position[Y])

\* C7: a body under constant acceleration (0, G) that starts at y0 > 0 with
\* v0 >= 0 and is still above ground has position.y == y0 + v0*t + G*t^2/2 and
\* velocity.y == v0 + G*t, t the sum of the dt of its advance() calls; and
\* advance(dt1) then advance(dt2) leaves what advance(dt1 + dt2) leaves.
C7_ClosedForm ==
    above_ground_projectile =>
        /\ bodies[1].position[Y] =
              RAdd(RAdd(b0.position[Y], RMul(b0.velocity[Y], t)),
                   RDiv(RMul(G, RMul(t, t)), Num(2)))
        /\ bodies[1].velocity[Y] = RAdd(b0.velocity[Y], RMul(G, t))
        /\ \A dt1 \in Dts, dt2 \in Dts :
              Advance(Advance(bodies[1], dt1, Zero), dt2, Zero)
                 = Advance(bodies[1], RAdd(dt1, dt2), Zero)

C7_Witness ==
    /\ above_ground_projectile
    /\ op = "advance" /\ nops = 3
    /\ t = Rat(32, 10)
    /\ RLt(bodies[1].velocity[Y], Zero)

----------------------------------------------------------------------------
(* Properties of the animation loop (Spec). *)

within_limit(b) ==
    /\ b.limit = RMul(RMul(Num(4), RAbs(G)), b.mass)
    /\ RLe(Zero, b.thrust[Y])
    /\ RLe(b.thrust[Y], b.limit)

C9_GainsFollowKpid ==
    /\ \A i \in 1..Len(bodies) : has_controller(bodies[i]) => bodies[i].gains = Kpid
    /\ \A i \in 1..Len(calls) : has_controller(calls[i].b) => calls[i].b.gains = Kpid

C9_Witness ==
    /\ Kpid # Kpid0
    /\ \E i \in 1..Len(bodies) :
          /\ has_controller(bodies[i])
          /\ RLt(born[bodies[i].id], RSub(now, dt))
          /\ bodies[i].gains = Kpid

\* C10: in the iteration of a digit key d, advance() integrates every body that
\* has a thrust limit with thrust.y == d*limit/10, that is with
\* acceleration.y == d*limit/(10*mass) + G.
C10_DigitThrustIntegrated ==
    selected # None =>
        \A i \in 1..Len(calls) :
            has_limit(calls[i].b) =>
                /\ calls[i].advanced.thrust[Y] =
                      RDiv(RMul(Num(selected[1]), calls[i].b.limit), Num(10))
                /\ calls[i].advanced.acceleration[Y] =
                      RAdd(RDiv(RMul(Num(selected[1]), calls[i].b.limit),
                                RMul(Num(10), calls[i].b.mass)), G)

----------------------------------------------------------------------------
(* Properties of debris (SpecDebris). *)

\* the fragments the last step() advanced and constrained
fragment_calls == { i \in 1..Len(calls) : calls[i].b.kind = "fragment" }

returned_empty(r) == ~r.none /\ r.chunks = <<>>

\* the sum of the dt of the frames fragment id has been advanced in
age(id) == RSub(now, born[id])

\* C3 as stated: for a fragment of a crash, of lifetime L = 5, once the dt of its
\* frames (advance( dt ), then constrain()) sum to more than L, constrain()
\* returns an empty replacement list.
C3_RemovedAfterLifetime ==
    \A i \in fragment_calls :
        RLt(Num(FragmentTimeout), age(calls[i].b.id)) => returned_empty(calls[i].replacement)

\* C3 amended: only the dt of the advance() calls that found the fragment at or
\* below ground (position.y <= 0 when called) count against its lifetime L = 5:
\* once those sum to more than L constrain() returns an empty replacement
\* list, and it returns one only when they sum to L or more.
C3_RemovedAfterLifetimeOnGround ==
    \A i \in fragment_calls :
        /\ RLt(Num(FragmentTimeout), grounded[calls[i].b.id]) =>
              returned_empty(calls[i].replacement)
        /\ returned_empty(calls[i].replacement) =>
              RLe(Num(FragmentTimeout), grounded[calls[i].b.id])

C3_Witness ==
    \E i \in fragment_calls :
        /\ RLt(Num(FragmentTimeout), grounded[calls[i].b.id])
        /\ returned_empty(calls[i].replacement)
        /\ \A j \in 1..Len(bodies) : bodies[j].id # calls[i].b.id

----------------------------------------------------------------------------
(* Properties of the sprite layer (SpecDraw). *)

\* the transformed position of pos: col = 2*x, row = rows-1-y
transformed(w, pos) == Vec(RMul(Num(2), pos[X]), RSub(Num(w.rows - 1), pos[Y]))

in_grid(w, cell) ==
    /\ RLe(Zero, cell[Y]) /\ RLt(cell[Y], Num(w.rows))
    /\ RLe(Zero, cell[X]) /\ RLt(cell[X], Num(w.cols))

\* C4 as stated: sprite.clip returns a position only if the transformed position
\* has 0 <= row < rows and 0 <= col < cols, rejects (raises Clipped or returns
\* None) every position whose transformed row or column is outside, and the
\* row it returns plus the simulation y is rows - 1.
C4_ClipOnlyInsideGrid ==
    drawn.call = "clip" =>
        /\ drawn.value # None => in_grid(win, transformed(win, drawn.pos))
        /\ ~in_grid(win, transformed(win, drawn.pos)) =>
              (drawn.value = None /\ drawn.raised = drawn.throwing)
        /\ drawn.value # None => RAdd(drawn.value[Y], drawn.pos[Y]) = Num(win.rows - 1)

\* the glyphs of a sprite drawn at pos, off: each with the position it is drawn at
RECURSIVE glyphs_of(_, _, _)
RECURSIVE glyphs_from(_, _, _)
glyphs_of(spr, pos, off) ==
    IF spr.isstr THEN << [ spr |-> spr, pos |-> offset(pos, off) ] >>
    ELSE glyphs_from(spr.parts, 1, offset(pos, off))

glyphs_from(parts, i, pos) ==
    IF i > Len(parts) THEN <<>>
    ELSE glyphs_of(parts[i][2], pos, parts[i][1]) \o glyphs_from(parts, i + 1, pos)

clipped(w, pos) == clip(w, pos, FALSE).value = None

\* what drawing one glyph in the grid does on win, at its own cell
glyph_drawn(w, g, cleartoeol, choice) ==
    LET cell == clip(w, g.pos, FALSE).value
        y    == Trunc(cell[Y])
        x    == Trunc(cell[X])
    IN  (IF cleartoeol THEN <<move(y, x), clrtoeol(y, x)>> ELSE <<>>)
           \o <<addstr(y, x, thing(g.spr, choice))>>

RECURSIVE glyphs_drawn(_, _, _, _, _)
glyphs_drawn(w, gs, i, cleartoeol, choice) ==
    IF i > Len(gs) THEN <<>>
    ELSE (IF clipped(w, gs[i].pos) THEN <<>> ELSE glyph_drawn(w, gs[i], cleartoeol, choice))
            \o glyphs_drawn(w, gs, i + 1, cleartoeol, choice)

\* C5: draw() never raises; a glyph whose position clip() rejects is drawn with
\* no operation on win at all (no move, clrtoeol or addstr), and of a sprites
\* every glyph whose own position clip() accepts is drawn at its own cell,
\* whatever happened to the glyphs before it.
C5_ClippedDrawsNothing ==
    drawn.call \in { "sprite.draw", "sprites.draw" } =>
        /\ ~drawn.raised
        /\ surface = glyphs_drawn(win, glyphs_of(drawn.spr, drawn.pos, drawn.off), 1,
                                  drawn.cleartoeol, drawn.choice)
        /\ (drawn.spr.isstr /\ clipped(win, offset(drawn.pos, drawn.off))) => surface = <<>>

C5_Witness ==
    /\ drawn.call = "sprites.draw" /\ ~drawn.spr.isstr /\ drawn.cleartoeol
    /\ clipped(win, glyphs_of(drawn.spr, drawn.pos, drawn.off)[1].pos)
    /\ ~clipped(win, glyphs_of(drawn.spr, drawn.pos, drawn.off)[2].pos)
    /\ Len(surface) >= 3
    /\ surface[3].op = "addstr"
    /\ ~drawn.raised

(***************************************************************************)
(* Simulated time.                                                         *)
(***************************************************************************)

\* C11: in every iteration of the loop the dt passed to each advance() is the
\* wall-clock delta since the previous iteration times timewarp, the now passed
\* is the previous now plus that dt (so, from now = start, start plus the sum of
\* all dt), and doubling timewarp while halving the wall-clock delta gives the
\* same dt.
C11_WarpedTime ==
    [][ frames' # frames =>
          /\ dt' = RMul(RSub(last', last), timewarp')
          /\ now' = RAdd(now, dt')
          /\ \A i \in 1..Len(calls') : calls'[i].dt = dt' /\ calls'[i].now = now'
          /\ \A delta \in WallDeltas, w \in Timewarps :
                warped(RAdd(last, RDiv(delta, Num(2))), last, RMul(Num(2), w))
                  = warped(RAdd(last, delta), last, w) ]_vars

\* a body was advanced under a time warp other than 1: simulated time has left
\* the wall clock
C11_Witness ==
    /\ pc = "animation"
    /\ timewarp # Num(1)
    /\ calls # <<>>
    /\ calls[1].now = now /\ calls[1].dt = dt
    /\ RLt(Zero, dt)
    /\ now # last

(***************************************************************************)
(* The active set step() returns.                                          *)
(***************************************************************************)

\* what a body leaves in the next active set: itself as constrain() left it when
\* constrain() returned None, else the list constrain() returned
left_by(c) == IF c.replacement.none THEN <<c.replacement.self>> ELSE c.replacement.chunks

RECURSIVE concatenated(_)
concatenated(cs) == IF cs = <<>> THEN <<>> ELSE left_by(Head(cs)) \o concatenated(Tail(cs))

\* the positions of the next active set holding a body of the given id
places(id) == { j \in 1..Len(bodies) : bodies[j].id = id }

\* the ids of the bodies the last step() advanced and constrained
called_ids == { calls[i].b.id : i \in 1..Len(calls) }

\* C12: the active set step() returns is the in-order concatenation of what each
\* body leaves: a body whose constrain() returned an empty list is absent, a
\* crashed rocket is absent with its fragments in its place, every other body is
\* there exactly once, as constrain() left it; and the bodies of a replacement
\* list were neither advanced nor constrained in the frame that created them.
C12_NextActiveSet ==
    frames > 0 =>
      /\ bodies = concatenated(calls)
      /\ \A i \in 1..Len(calls) :
            LET c == calls[i] IN
            /\ returned_empty(c.replacement) => places(c.b.id) = {}
            /\ (c.b.kind = "rocket" /\ ~c.replacement.none) =>
                  /\ places(c.b.id) = {}
                  /\ is_fragments(c.replacement.chunks)
                  /\ \E at \in 0..Len(bodies) :
                        \A k \in 1..Len(c.replacement.chunks) :
                            /\ at + k \in 1..Len(bodies)
                            /\ bodies[at + k] = c.replacement.chunks[k]
                  /\ \A k \in 1..Len(c.replacement.chunks) :
                        LET f == c.replacement.chunks[k] IN
                        /\ f.id \notin called_ids
                        /\ f.position = Vec(c.advanced.position[X], Zero)
                        /\ f.acceleration = Vec(Zero, G)
                        /\ f.timeout = Num(FragmentTimeout)
            /\ c.replacement.none =>
                  /\ Cardinality(places(c.b.id)) = 1
                  /\ \A j \in places(c.b.id) : bodies[j] = c.replacement.self
      /\ \A j \in 1..Len(bodies) :
            \/ bodies[j].id \in called_ids
            \/ \E i \in 1..Len(calls) :
                  \E k \in 1..Len(calls[i].replacement.chunks) :
                      calls[i].replacement.chunks[k] = bodies[j]
      /\ \A j, k \in 1..Len(bodies) :
            (j < k /\ bodies[j].id \in called_ids /\ bodies[k].id \in called_ids) =>
               \E i, l \in 1..Len(calls) :
                  i < l /\ calls[i].b.id = bodies[j].id /\ calls[l].b.id = bodies[k].id

\* a frame in which the fragments of an earlier crash were removed (their
\* constrain() returned the empty list) and a rocket crashed
C12_Witness ==
    /\ \E i \in fragment_calls : returned_empty(calls[i].replacement)
    /\ \E i \in 1..Len(calls) : calls[i].b.kind = "rocket" /\ ~calls[i].replacement.none
    /\ Len(bodies) > 1

(***************************************************************************)
(* The order of the calls within step().                                   *)
(***************************************************************************)

\* the calls of update() made on the body of the given id
updates_of(id) == { k \in 1..Len(updated) : updated[k].id = id }

\* C13: within one frame every advance() and constrain() is complete before any
\* update() is called, and update() is called exactly once on each body of the
\* new active set and on no body that was destroyed or replaced.
C13_UpdateAfterAll ==
    frames > 0 =>
      /\ \A k \in 1..Len(updated) : updated[k].after = Len(calls)
      /\ \A j \in 1..Len(bodies) : Cardinality(updates_of(bodies[j].id)) = 1
      /\ \A j, k \in 1..Len(bodies) : bodies[j].id = bodies[k].id => j = k
      /\ \A k \in 1..Len(updated) : places(updated[k].id) # {}
      /\ \A i \in 1..Len(calls) :
            ~calls[i].replacement.none => updates_of(calls[i].b.id) = {}

\* a frame that advanced several bodies, removed some and updated those of the
\* new active set
C13_Witness ==
    /\ Len(calls) > 1
    /\ \E i \in 1..Len(calls) : ~calls[i].replacement.none
    /\ updated # <<>>
    /\ \A k \in 1..Len(updated) : updated[k].after = Len(calls)

(***************************************************************************)
(* main(): exceptions of the animation loop.                               *)
(***************************************************************************)

\* keypad off, echo on, cbreak off, endwin() called
restored == ~term.keypad /\ term.echo /\ ~term.cbreak /\ ~term.curses

\* C14: an exception raised inside the animation loop is caught by main(): it
\* never propagates out of main(); the terminal is restored (keypad off, echo,
\* nocbreak, endwin) before main() returns; the traceback is logged, once, and
\* only after the restore; and the loop is never entered again: animate() is
\* called once and no iteration follows the exception.
C14_CaughtRestoredLogged ==
    /\ [](/\ term.at # "propagated"
          /\ term.entered <= 1
          /\ term.log # <<>> => restored /\ term.log = term.failure
          /\ term.at = "returned" => restored
          /\ (term.at = "returned" /\ pc = "raised") => term.log = exception
          /\ (pc = "raised" /\ term.at \notin { "except" }) => term.failure = exception)
    /\ [][ pc = "raised" => (pc' = "raised" /\ frames' = frames /\ bodies' = bodies
                                /\ term'.entered = term.entered
                                /\ exception' = exception) ]_vars

\* main() has returned after the loop, bodies in flight, raised: the terminal is
\* restored and the traceback logged
C14_Witness ==
    /\ term.at = "returned"
    /\ pc = "raised"
    /\ frames > 0
    /\ bodies # <<>>
    /\ term.log # <<>>
    /\ restored

(***************************************************************************)
(* Invalid configurations of a powered body.                               *)
(***************************************************************************)

\* C15: constructing a powered body with mass 0, or with a thrust whose length
\* differs from the position's, raises at construction: no body that __init__
\* returned, and none that advance() is called on, has mass 0 or such a thrust.
C15_InvalidFailsAtConstruction ==
    \A i \in 1..Len(bodies) :
        /\ bodies[i].mass # Zero
        /\ Len(bodies[i].thrust) = Len(bodies[i].position)

(***************************************************************************)
(* The life of a fragment.                                                 *)
(***************************************************************************)

\* the fragment is there and done: position.y <= 0
fragment_done == bodies # <<>> /\ body_done(bodies[1])

\* the next frame either removes the fragment, exactly when the timeout less the
\* frame's dt is <= 0, or leaves it done with the timeout less by that dt
counts_down ==
    /\ bodies' = <<>> <=> RLe(RSub(bodies[1].timeout, RSub(t', t)), Zero)
    /\ bodies' # <<>> =>
          /\ body_done(bodies'[1])
          /\ bodies'[1].timeout = RSub(bodies[1].timeout, RSub(t', t))

\* C16 as stated: once a fragment of a crash is done (position.y <= 0) it stays
\* done and its timeout decreases by dt in every later frame until constrain()
\* returns the empty list at timeout <= 0; and every such fragment is eventually
\* removed.
C16_DoneStaysDone ==
    /\ [][ fragment_done => counts_down ]_vars
    /\ <>(bodies = <<>>)

\* C16 amended: the same, from the end of a frame on, i.e. once the fragment is
\* at or below ground after constrain().
C16_GroundedStaysDone ==
    /\ [][ (fragment_done /\ op = "frame") => counts_down ]_vars
    /\ <>(bodies = <<>>)

\* a fragment that has come down after a flight: frames have summed to more
\* than its lifetime, it is at rest and its timeout is running
C16_Witness ==
    /\ fragment_done
    /\ op = "frame"
    /\ resting(bodies[1])
    /\ RLt(Num(FragmentTimeout), t)
    /\ RLt(Zero, bodies[1].timeout)
    /\ RLt(bodies[1].timeout, Num(FragmentTimeout))

(***************************************************************************)
(* The two integrators.                                                    *)
(***************************************************************************)

\* body.advance with the commented-out line in place of the other:
\* p_new,v_new = verlet( p, v, dt, lambda r: a )
body_advance_verlet(b, d) ==
    moved(b, verlet(b.position[X], b.velocity[X], d, b.acceleration[X]),
             verlet(b.position[Y], b.velocity[Y], d, b.acceleration[Y]))

\* C17: for constant acceleration verlet and homemade return the same
\* ( p_new, v_new ), on each axis of every body and for every dt, so body.advance
\* leaves the same body with either.
C17_VerletIsHomemade ==
    \A d \in Dts :
        /\ \A axis \in { X, Y } :
              verlet(bodies[1].position[axis], bodies[1].velocity[axis], d,
                     bodies[1].acceleration[axis])
                = homemade(bodies[1].position[axis], bodies[1].velocity[axis], d,
                           bodies[1].acceleration[axis])
        /\ body_advance_verlet(bodies[1], d) = body_advance(bodies[1], d)

\* a body in flight, moving on both axes under gravity, advanced twice
C17_Witness ==
    /\ op = "advance" /\ nops = 2
    /\ bodies[1].acceleration = Vec(Zero, G)
    /\ bodies[1].velocity[X] # Zero
    /\ RLt(bodies[1].velocity[Y], Zero)
    /\ RLt(Zero, bodies[1].position[Y])
    /\ body_advance_verlet(bodies[1], Rat(1, 10)) # bodies[1]

(***************************************************************************)
(* The ground.                                                             *)
(***************************************************************************)

\* C18: at the end of every frame every body of the active set has
\* position.y >= 0, whatever its velocity, its thrust within [0, limit] and dt.
C18_NeverBelowGround ==
    \A i \in 1..Len(bodies) : RLe(Zero, bodies[i].position[Y])

\* the frame just taken was on a powered body at rest on the ground, and
\* advance() integrated a vertical thrust that does not exceed the weight
rested_underpowered ==
    /\ op = "frame"
    /\ pre.kind \in { "active", "rocket" }
    /\ resting(pre)
    /\ RLe(RAdd(RDiv(ret.self.thrust[Y], ret.self.mass), G), Zero)

\* C19: a powered body at rest on the ground whose thrust.y / mass + G <= 0 is
\* still at rest after advance( dt ) and constrain(), for every dt, and
\* constrain() returns no replacement.
C19_RestingStaysResting ==
    rested_underpowered =>
        /\ ret.none
        /\ Len(bodies) = 1
        /\ resting(bodies[1])

====
